---------------------------- MODULE Spec2Model ----------------------------
(***************************************************************************)
(* Model of app.py: the "Process Video" handler, download_youtube_video    *)
(* and trim_video, with the disk (youtube_videos/, trimmed_videos/), the   *)
(* page output (st.error / st.success / st.warning / progress bar) and the *)
(* external collaborators (pytubefix, moviepy) as nondeterministic steps.  *)
(*                                                                         *)
(* Durations are exact integers (ticks); a progress value (i+1)/n is the   *)
(* pair <<i+1, n>> compared by cross-multiplication.                       *)
(***************************************************************************)
EXTENDS Integers, Sequences, FiniteSets, TLC

\* ------------------------------------------------------------- bounds
MaxStreams == 2      \* longest stream list the resolver reports
MaxRes == 2          \* resolutions are 1..MaxRes
MaxDuration == 4     \* probed durations are 0..MaxDuration (and the scenarios')
MaxSeg == 3          \* widget values are 1..MaxSeg (and the default)
MaxTitleLen == 2     \* longest string given to sanitize_filename on its own

\* ---------------------------------------------------------- constants
max_attempts == 10

\* Python's None and a present value, for variables that hold either.
None == <<>>
Some(v) == <<v>>
Val(x) == x[1]

\* Titles the host may report, as character sequences; "a" and "a?" sanitize
\* to the same name, "?" sanitizes to the empty name.
Titles == { <<"a">>, <<"a", "?">>, <<"?">> }

Forbidden == { "<", ">", ":", "\"", "/", "\\", "|", "?", "*" }

\* ------------------------------------------------------ pure functions
\* A substitution that stops after the first match (re.sub with count=1).
RECURSIVE SanitizeFirstOnly(_)
SanitizeFirstOnly(filename) ==
    IF filename = <<>> THEN <<>>
    ELSE IF Head(filename) \in Forbidden THEN Tail(filename)
         ELSE <<Head(filename)>> \o SanitizeFirstOnly(Tail(filename))

\* Lines 26-28: re.sub(r'[<>:"/\\|?*]', "", filename).
RECURSIVE sanitize_filename(_)
sanitize_filename(filename) ==
    IF filename = <<>> THEN <<>>
    ELSE LET rest == sanitize_filename(Tail(filename))
         IN  IF Head(filename) \in Forbidden THEN rest
             ELSE <<Head(filename)>> \o rest

Names == { sanitize_filename(t) : t \in Titles }

\* Python's a // b and a % b on integers, a >= 0, b # 0 (floor division; the
\* remainder has the sign of the divisor).
PyFloorDiv(a, b) ==
    IF b > 0 THEN a \div b
    ELSE -((a + (-b) - 1) \div (-b))

PyMod(a, b) == a - b * PyFloorDiv(a, b)

Min(a, b) == IF a <= b THEN a ELSE b

\* NumSegments without the extra segment for a remainder.
NumSegmentsFloor(total, seg) == PyFloorDiv(total, seg)

\* NumSegments computed from the magnitude of the segment length.
NumSegmentsAbs(total, seg) ==
    LET m == IF seg < 0 THEN -seg ELSE seg
    IN  PyFloorDiv(total, m) + (IF PyMod(total, m) > 0 THEN 1 ELSE 0)

\* Lines 77-79.
NumSegments(total, seg) ==
    PyFloorDiv(total, seg) + (IF PyMod(total, seg) > 0 THEN 1 ELSE 0)

\* Lines 91-92, for loop index i (0-based).
StartTime(i, seg) == i * seg

\* EndTime without the clamp to the total duration.
EndTimeUnclamped(i, seg, total) == (i + 1) * seg

EndTime(i, seg, total) == Min((i + 1) * seg, total)

\* ---------------------------------------------------- stream selection
Containers == { "mp4", "webm" }
StreamDescriptors ==
    [ progressive : BOOLEAN, ext : Containers, res : 1..MaxRes ]

RECURSIVE SeqsUpTo(_, _)
SeqsUpTo(S, n) ==
    IF n = 0 THEN { <<>> }
    ELSE LET shorter == SeqsUpTo(S, n - 1)
         IN  shorter \cup { Append(s, x) : s \in { t \in shorter : Len(t) = n - 1 }, x \in S }

StreamLists == SeqsUpTo(StreamDescriptors, MaxStreams)

\* yt.streams.filter(progressive=True, file_extension="mp4"): the indices of
\* the matching streams, in reported order.
\* A filter that forgets the container test.
RECURSIVE FilterStreamsAnyContainer(_, _)
FilterStreamsAnyContainer(s, k) ==
    IF k > Len(s) THEN <<>>
    ELSE IF s[k].progressive
         THEN <<k>> \o FilterStreamsAnyContainer(s, k + 1)
         ELSE FilterStreamsAnyContainer(s, k + 1)

RECURSIVE FilterStreams(_, _)
FilterStreams(s, k) ==
    IF k > Len(s) THEN <<>>
    ELSE IF s[k].progressive /\ s[k].ext = "mp4"
         THEN <<k>> \o FilterStreams(s, k + 1)
         ELSE FilterStreams(s, k + 1)

\* .order_by("resolution"): a stable ascending sort (insertion after every
\* element that is not greater).
RECURSIVE InsertSorted(_, _, _)
InsertSorted(sorted, k, s) ==
    IF sorted = <<>> THEN <<k>>
    ELSE IF s[Head(sorted)].res <= s[k].res
         THEN <<Head(sorted)>> \o InsertSorted(Tail(sorted), k, s)
         ELSE <<k>> \o sorted

RECURSIVE OrderByResolution(_, _)
OrderByResolution(idx, s) ==
    IF idx = <<>> THEN <<>>
    ELSE InsertSorted(OrderByResolution(SubSeq(idx, 1, Len(idx) - 1), s),
                      idx[Len(idx)], s)

\* Desc that leaves the order as it is.
DescNoReverse(q) == q

\* .desc(): the list reversed.
RECURSIVE Desc(_)
Desc(q) == IF q = <<>> THEN <<>> ELSE Append(Desc(Tail(q)), Head(q))

\* .first(): the head, or None (index 0) when the query is empty.
First(q) == IF q = <<>> THEN 0 ELSE Head(q)

\* Lines 35-40: the index (1-based, in reported order) of the selected
\* stream, 0 when there is none.
SelectStream(s) == First(Desc(OrderByResolution(FilterStreams(s, 1), s)))

\* -------------------------------------------------------------- state
VARIABLES
    pc,               \* position of the script / handler
    segment_duration, \* the number_input value (line 118), trim_video's argument
    warned,           \* st.warning shown (line 165)
    errors,           \* st.error messages of this run, in order
    successes,        \* st.success messages of this run, in order
    streams,          \* yt.streams as reported (download_youtube_video local)
    video,            \* index of the selected stream, 0 = None
    filename,         \* sanitized title (download_youtube_video local)
    attempts,         \* poll counter (line 52)
    sleeps,           \* time.sleep(1) calls made by this download
    pending,          \* the transfer returned but its data is not on disk yet
    video_path,       \* handler variable (line 123) / trim_video argument: None or Some(path)
    video_filename,   \* handler variable (line 123) / trim_video argument: None or Some(name)
    handles,          \* open VideoFileClip handles on source files
    total_duration,   \* trim_video local (line 76)
    num_segments,     \* trim_video local (line 77)
    i,                \* loop index (line 90)
    trimmed,          \* trim_video local trimmed_paths (line 86)
    windows,          \* the (start, end) pairs passed to subclipped, in order
    transcodes,       \* the part numbers write_videofile was called for, in order
    progress_bar,     \* Some(value shown by the progress bar), None before line 88
    progress_updates, \* values passed to progress_bar.progress, in order
    trimmed_paths,    \* handler variable (line 129): None until trim_video returns,
                      \* then Some(list)
    disk,             \* youtube_videos/<name>.mp4: "absent", "stale" or "fresh"
    dirs,             \* names of the directories that exist under trimmed_videos/
    title,            \* yt.title as the host reported it to this run (line 45)
    calls             \* how often this run started a resolve (line 34) and a
                      \* transfer (lines 45-47)

vars == << pc, segment_duration, warned, errors, successes, streams, video,
           filename, attempts, sleeps, pending, video_path, video_filename,
           handles, total_duration, num_segments, i, trimmed, windows,
           transcodes, progress_bar, progress_updates, trimmed_paths, disk, dirs,
           title, calls >>

runHistory == << title, calls >>
NoCalls == [ resolve |-> 0, transfer |-> 0 ]

downloadLocals == << streams, video, filename, attempts, sleeps, pending >>
trimLocals == << total_duration, num_segments, i, trimmed, windows,
                 transcodes, progress_bar, progress_updates >>
pageOutput == << warned, errors, successes >>

\* os.path.join("youtube_videos", f"{filename}.mp4") names the file by its name.
OutputPath(name) == name

\* os.path.exists on a downloaded file.
Exists(path) == disk[path] # "absent"

\* os.path.exists(output_dir): joining "trimmed_videos" with the empty name
\* gives trimmed_videos/ itself, which lines 12-13 created.
DirExists(name) == name = <<>> \/ name \in dirs

\* Files named by the 0-based loop index.
PartPathZeroBased(dir, n) == [ dir |-> dir, part |-> n - 1 ]

\* os.path.join(output_dir, f"part_{i+1}.mp4")
PartPath(dir, n) == [ dir |-> dir, part |-> n ]

\* The state a fresh script run starts from (lines 1-118); the disk and the
\* process's open handles are kept.
FreshRun ==
    /\ warned = FALSE
    /\ errors = <<>>
    /\ successes = <<>>
    /\ streams = <<>>
    /\ video = 0
    /\ filename = <<>>
    /\ attempts = 0
    /\ sleeps = 0
    /\ pending = FALSE
    /\ video_path = None
    /\ video_filename = None
    /\ total_duration = 0
    /\ num_segments = 0
    /\ i = 0
    /\ trimmed = <<>>
    /\ windows = <<>>
    /\ transcodes = <<>>
    /\ progress_bar = None
    /\ progress_updates = <<>>
    /\ trimmed_paths = None
    /\ title = <<>>
    /\ calls = NoCalls

\* The same, as the effect of a step: the page cleared, the locals of
\* download_youtube_video and of trim_video back to their first values.
ResetPage ==
    /\ warned' = FALSE
    /\ errors' = <<>>
    /\ successes' = <<>>

ResetDownloadLocals ==
    /\ streams' = <<>>
    /\ video' = 0
    /\ filename' = <<>>
    /\ attempts' = 0
    /\ sleeps' = 0
    /\ pending' = FALSE

ResetTrimLocals ==
    /\ total_duration' = 0
    /\ num_segments' = 0
    /\ i' = 0
    /\ trimmed' = <<>>
    /\ windows' = <<>>
    /\ transcodes' = <<>>
    /\ progress_bar' = None
    /\ progress_updates' = <<>>

\* Line 118: the values the number_input can hold (min_value=1), its
\* default among them.
WidgetDefault == 60
WidgetValues == (1..MaxSeg) \cup { WidgetDefault }

\* Lines 9-13 make the two directories; files of earlier sessions may be there.
Init ==
    /\ pc = "Idle"
    /\ segment_duration = WidgetDefault
    /\ FreshRun
    /\ handles = 0
    /\ disk \in [ Names -> { "absent", "stale" } ]
    /\ dirs \in SUBSET (Names \ { <<>> })

\* ------------------------------------------------- the button handler
\* Lines 120-123: the button is clicked with a URL entered; the widget of
\* line 118 (min_value=1) holds the segment length.
ProcessVideo ==
    /\ pc = "Idle"
    /\ \E d \in WidgetValues : segment_duration' = d
    /\ pc' = "Resolve"
    /\ UNCHANGED << runHistory, pageOutput, downloadLocals, video_path, video_filename,
                    handles, trimLocals, trimmed_paths, disk, dirs >>

\* Lines 120-121, 164-165: the button is clicked with no URL.
ClickEmptyUrl ==
    /\ pc = "Idle"
    /\ warned' = TRUE
    /\ pc' = "End"
    /\ UNCHANGED << runHistory, segment_duration, errors, successes, downloadLocals,
                    video_path, video_filename, handles, trimLocals,
                    trimmed_paths, disk, dirs >>

\* The next interaction runs the script again from the top (lines 1-118).
Rerun ==
    /\ pc = "End"
    /\ pc' = "Idle"
    /\ ResetPage
    /\ ResetDownloadLocals
    /\ ResetTrimLocals
    /\ video_path' = None
    /\ video_filename' = None
    /\ trimmed_paths' = None
    /\ title' = <<>>
    /\ calls' = NoCalls
    /\ disk' = [ n \in Names |-> IF disk[n] = "fresh" THEN "stale" ELSE disk[n] ]
    /\ UNCHANGED << segment_duration, handles, dirs >>

\* ------------------------------------------- download_youtube_video
\* The function returns (lines 43, 59, 61, 64): its locals are gone, the
\* handler holds the pair (line 123).
DownloadReturns(path, name) ==
    /\ video_path' = path
    /\ video_filename' = name
    /\ ResetDownloadLocals
    /\ pc' = "Downloaded"

\* Lines 62-64: any exception of lines 34-61.
DownloadExcept ==
    /\ errors' = Append(errors, "Error downloading video")
    /\ DownloadReturns(None, None)

\* Lines 34-40 raise (lookup failure, removed or restricted content).
ResolveRaise ==
    /\ pc = "Resolve"
    /\ calls' = [ calls EXCEPT !.resolve = @ + 1 ]
    /\ DownloadExcept
    /\ UNCHANGED << title, segment_duration, warned, successes, handles, trimLocals,
                    trimmed_paths, disk, dirs >>

\* Lines 34-40: the host reports its streams, one is selected (or none).
Resolve ==
    /\ pc = "Resolve"
    /\ calls' = [ calls EXCEPT !.resolve = @ + 1 ]
    /\ \E s \in StreamLists :
          /\ streams' = s
          /\ video' = SelectStream(s)
    /\ pc' = "Selected"
    /\ UNCHANGED << title, segment_duration, pageOutput, filename, attempts,
                    sleeps, pending, video_path, video_filename, handles,
                    trimLocals, trimmed_paths, disk, dirs >>

\* Lines 41-43: without a stream the function reports it and returns.
CheckStream ==
    /\ pc = "Selected"
    /\ IF video = 0
       THEN /\ errors' = Append(errors, "No suitable video stream found")
            /\ DownloadReturns(None, None)
       ELSE /\ pc' = "Transfer"
            /\ UNCHANGED << errors, downloadLocals, video_path, video_filename >>
    /\ UNCHANGED << runHistory, segment_duration, warned, successes, handles,
                    trimLocals, trimmed_paths, disk, dirs >>

\* A transfer that is started again when it has failed.
TransferRaiseRetry ==
    /\ pc = "Transfer"
    /\ calls' = [ calls EXCEPT !.transfer = @ + 1 ]
    /\ UNCHANGED << pc, title, segment_duration, pageOutput, downloadLocals,
                    video_path, video_filename, handles, trimLocals,
                    trimmed_paths, disk, dirs >>

\* Lines 45-47 raise (the title lookup or the transfer fails).
TransferRaise ==
    /\ pc = "Transfer"
    /\ calls' = [ calls EXCEPT !.transfer = @ + 1 ]
    /\ DownloadExcept
    /\ UNCHANGED << title, segment_duration, warned, successes, handles, trimLocals,
                    trimmed_paths, disk, dirs >>

\* Lines 45-52: the transfer returns with the file on disk.
TransferWritten ==
    /\ pc = "Transfer"
    /\ calls' = [ calls EXCEPT !.transfer = @ + 1 ]
    /\ \E t \in Titles :
          /\ title' = t
          /\ filename' = sanitize_filename(t)
          /\ disk' = [ disk EXCEPT ![OutputPath(sanitize_filename(t))] = "fresh" ]
    /\ pending' = FALSE
    /\ attempts' = 0
    /\ pc' = "Poll"
    /\ UNCHANGED << segment_duration, pageOutput, streams, video, sleeps,
                    video_path, video_filename, handles, trimLocals,
                    trimmed_paths, dirs >>

\* Lines 45-52: the transfer returns before its data is on disk (or without
\* writing at all); what was at the path before is still there.
TransferUnflushed ==
    /\ pc = "Transfer"
    /\ calls' = [ calls EXCEPT !.transfer = @ + 1 ]
    /\ \E t \in Titles :
          /\ title' = t
          /\ filename' = sanitize_filename(t)
    /\ pending' = TRUE
    /\ attempts' = 0
    /\ pc' = "Poll"
    /\ UNCHANGED << segment_duration, pageOutput, streams, video, sleeps,
                    video_path, video_filename, handles, trimLocals,
                    trimmed_paths, disk, dirs >>

\* The storage layer completes the write while the function polls.
FileAppears ==
    /\ pc \in { "Poll", "Verify" }
    /\ pending
    /\ disk' = [ disk EXCEPT ![OutputPath(filename)] = "fresh" ]
    /\ pending' = FALSE
    /\ UNCHANGED << runHistory, pc, segment_duration, pageOutput, streams, video, filename,
                    attempts, sleeps, video_path, video_filename, handles,
                    trimLocals, trimmed_paths, dirs >>

\* A loop that tests attempts <= max_attempts.
PollSleepOffByOne ==
    /\ pc = "Poll"
    /\ ~Exists(OutputPath(filename)) /\ attempts <= max_attempts
    /\ sleeps' = sleeps + 1
    /\ attempts' = attempts + 1
    /\ UNCHANGED << runHistory, pc, segment_duration, pageOutput, streams, video,
                    filename, pending, video_path, video_filename, handles,
                    trimLocals, trimmed_paths, disk, dirs >>

\* Lines 53-55: one turn of the loop.
PollSleep ==
    /\ pc = "Poll"
    /\ ~Exists(OutputPath(filename)) /\ attempts < max_attempts
    /\ sleeps' = sleeps + 1
    /\ attempts' = attempts + 1
    /\ UNCHANGED << runHistory, pc, segment_duration, pageOutput, streams, video, filename,
                    pending, video_path, video_filename, handles, trimLocals,
                    trimmed_paths, disk, dirs >>

\* Line 53: the loop condition is false.
PollExit ==
    /\ pc = "Poll"
    /\ ~(~Exists(OutputPath(filename)) /\ attempts < max_attempts)
    /\ pc' = "Verify"
    /\ UNCHANGED << runHistory, segment_duration, pageOutput, downloadLocals, video_path,
                    video_filename, handles, trimLocals, trimmed_paths, disk, dirs >>

\* Verify without the final existence check.
VerifyNoCheck ==
    /\ pc = "Verify"
    /\ DownloadReturns(Some(OutputPath(filename)), Some(filename))
    /\ UNCHANGED << runHistory, segment_duration, pageOutput, handles, trimLocals,
                    trimmed_paths, disk, dirs >>

\* Lines 57-61: the final existence check.
Verify ==
    /\ pc = "Verify"
    /\ IF ~Exists(OutputPath(filename))
       THEN /\ errors' = Append(errors, "Download failed - file not created")
            /\ DownloadReturns(None, None)
       ELSE /\ DownloadReturns(Some(OutputPath(filename)), Some(filename))
            /\ UNCHANGED errors
    /\ UNCHANGED << runHistory, segment_duration, warned, successes, handles, trimLocals,
                    trimmed_paths, disk, dirs >>

\* Line 125: Python truth of the pair (None and the empty string are false;
\* a path always ends in ".mp4").
Truthy(path, name) == path # None /\ name # None /\ Val(name) # <<>>

\* Lines 125-129: the handler goes on to trim_video, or stops.
AfterDownload ==
    /\ pc = "Downloaded"
    /\ IF Truthy(video_path, video_filename)
       THEN /\ successes' = Append(successes, "Video downloaded successfully!")
            /\ pc' = "TrimEntry"
       ELSE /\ pc' = "End"
            /\ UNCHANGED successes
    /\ UNCHANGED << runHistory, segment_duration, warned, errors, downloadLocals, video_path,
                    video_filename, handles, trimLocals, trimmed_paths, disk, dirs >>

\* ------------------------------------------------------- trim_video
\* Probed durations: 0..MaxDuration and those of the documented scenarios.
Durations == (0..MaxDuration) \cup { 60, 150 }

\* Segment lengths a direct caller of trim_video may pass (the widget only
\* passes values >= 1).
TrimSegLens == ((-MaxSeg)..MaxSeg) \cup { WidgetDefault }

\* ExceptResult returning what was produced before the failure.
ExceptResultPartial(partial) == partial

\* Line 106: what the except clause returns, given the local list so far.
ExceptResult(partial) == <<>>

\* Finally without the close.
FinallyNoClose(h, opened) == h

\* Lines 107-109: the finally clause, given whether line 75 opened the clip.
Finally(h, opened) == IF opened THEN h - 1 ELSE h

\* ProgressValue given as a percentage.
ProgressValuePercent(k, n) == << 100 * (k + 1), n >>

\* ProgressValue computed from the 0-based index.
ProgressValueZeroBased(k, n) == << k, n >>

\* Line 100, for loop index k (0-based) of n segments.
ProgressValue(k, n) == << k + 1, n >>

\* Lines 104-109: an exception inside the try block.
TrimExcept(opened) ==
    /\ errors' = Append(errors, "Error trimming video")
    /\ trimmed_paths' = Some(ExceptResult(trimmed))
    /\ handles' = Finally(handles, opened)
    /\ pc' = "Report"

\* trim_video without the existence test.
TrimEntryNoCheck ==
    /\ pc = "TrimEntry"
    /\ pc' = "Open"
    /\ UNCHANGED << runHistory, segment_duration, pageOutput, downloadLocals,
                    video_path, video_filename, handles, trimLocals,
                    trimmed_paths, disk, dirs >>

\* Lines 69-73: the source must exist.
TrimEntry ==
    /\ pc = "TrimEntry"
    /\ IF ~Exists(Val(video_path))
       THEN /\ errors' = Append(errors, "Video file not found")
            /\ trimmed_paths' = Some(<<>>)
            /\ pc' = "Report"
       ELSE /\ pc' = "Open"
            /\ UNCHANGED << errors, trimmed_paths >>
    /\ UNCHANGED << runHistory, segment_duration, warned, successes, downloadLocals,
                    video_path, video_filename, handles, trimLocals, disk, dirs >>

\* Line 75 raises (the file cannot be read as a video): video stays None.
TrimOpenRaise ==
    /\ pc = "Open"
    /\ TrimExcept(FALSE)
    /\ UNCHANGED << runHistory, segment_duration, warned, successes, downloadLocals,
                    video_path, video_filename, trimLocals, disk, dirs >>

\* Lines 75-76: the clip is opened and its duration probed.
TrimOpen ==
    /\ pc = "Open"
    /\ handles' = handles + 1
    /\ \E d \in Durations : total_duration' = d
    /\ pc' = "Plan"
    /\ UNCHANGED << runHistory, segment_duration, pageOutput, downloadLocals, video_path,
                    video_filename, num_segments, i, trimmed, windows,
                    transcodes, progress_bar, progress_updates, trimmed_paths,
                    disk, dirs >>

\* Lines 77-79: the segment count; a zero length raises ZeroDivisionError.
TrimPlan ==
    /\ pc = "Plan"
    /\ IF segment_duration = 0
       THEN /\ TrimExcept(TRUE)
            /\ UNCHANGED num_segments
       ELSE /\ num_segments' = NumSegments(total_duration, segment_duration)
            /\ pc' = "Mkdir"
            /\ UNCHANGED << errors, trimmed_paths, handles >>
    /\ UNCHANGED << runHistory, segment_duration, warned, successes, downloadLocals,
                    video_path, video_filename, total_duration, i, trimmed,
                    windows, transcodes, progress_bar, progress_updates,
                    disk, dirs >>

\* Lines 82-88: the output directory, the empty list, the progress bar at 0.
TrimMkdir ==
    /\ pc = "Mkdir"
    /\ dirs' = IF DirExists(sanitize_filename(Val(video_filename)))
               THEN dirs
               ELSE dirs \cup { sanitize_filename(Val(video_filename)) }
    /\ trimmed' = <<>>
    /\ progress_bar' = Some(<< 0, 1 >>)
    /\ i' = 0
    /\ pc' = "Loop"
    /\ UNCHANGED << runHistory, segment_duration, pageOutput, downloadLocals, video_path,
                    video_filename, handles, total_duration, num_segments,
                    windows, transcodes, progress_updates, trimmed_paths, disk >>

\* Line 84 raises (the directory cannot be created).
TrimMkdirRaise ==
    /\ pc = "Mkdir"
    /\ ~DirExists(sanitize_filename(Val(video_filename)))
    /\ TrimExcept(TRUE)
    /\ UNCHANGED << runHistory, segment_duration, warned, successes, downloadLocals,
                    video_path, video_filename, trimLocals, disk, dirs >>

\* Lines 90-101: one iteration, the segment written.
TrimSegment ==
    /\ pc = "Loop"
    /\ i < num_segments
    /\ windows' = Append(windows, << StartTime(i, segment_duration),
                                     EndTime(i, segment_duration, total_duration) >>)
    /\ transcodes' = Append(transcodes, i + 1)
    /\ trimmed' = Append(trimmed,
                         PartPath(sanitize_filename(Val(video_filename)), i + 1))
    /\ progress_bar' = Some(ProgressValue(i, num_segments))
    /\ progress_updates' = Append(progress_updates, ProgressValue(i, num_segments))
    /\ i' = i + 1
    /\ UNCHANGED << runHistory, pc, segment_duration, pageOutput, downloadLocals, video_path,
                    video_filename, handles, total_duration, num_segments,
                    trimmed_paths, disk, dirs >>

\* A loop that silently skips a segment whose transcode failed.
TrimSegmentRaiseSkip ==
    /\ pc = "Loop"
    /\ i < num_segments
    /\ windows' = Append(windows, << StartTime(i, segment_duration),
                                     EndTime(i, segment_duration, total_duration) >>)
    /\ transcodes' = Append(transcodes, i + 1)
    /\ i' = i + 1
    /\ UNCHANGED << runHistory, pc, segment_duration, pageOutput,
                    downloadLocals, video_path, video_filename, handles,
                    total_duration, num_segments, trimmed, progress_bar,
                    progress_updates, trimmed_paths, disk, dirs >>

\* A loop that reports the failed segment and goes on with the next one.
TrimSegmentRaiseContinue ==
    /\ pc = "Loop"
    /\ i < num_segments
    /\ windows' = Append(windows, << StartTime(i, segment_duration),
                                     EndTime(i, segment_duration, total_duration) >>)
    /\ transcodes' = Append(transcodes, i + 1)
    /\ errors' = Append(errors, "Error trimming video")
    /\ i' = i + 1
    /\ UNCHANGED << runHistory, pc, segment_duration, warned, successes,
                    downloadLocals, video_path, video_filename, handles,
                    total_duration, num_segments, trimmed, progress_bar,
                    progress_updates, trimmed_paths, disk, dirs >>

\* Lines 90-96 raise: the transcode of segment i+1 fails.
TrimSegmentRaise ==
    /\ pc = "Loop"
    /\ i < num_segments
    /\ windows' = Append(windows, << StartTime(i, segment_duration),
                                     EndTime(i, segment_duration, total_duration) >>)
    /\ transcodes' = Append(transcodes, i + 1)
    /\ TrimExcept(TRUE)
    /\ UNCHANGED << runHistory, segment_duration, warned, successes, downloadLocals,
                    video_path, video_filename, total_duration, num_segments,
                    i, trimmed, progress_bar, progress_updates, disk, dirs >>

\* Lines 103, 107-109: the loop is over, the list is returned.
TrimReturn ==
    /\ pc = "Loop"
    /\ ~(i < num_segments)
    /\ trimmed_paths' = Some(trimmed)
    /\ handles' = Finally(handles, TRUE)
    /\ pc' = "Report"
    /\ UNCHANGED << runHistory, segment_duration, pageOutput, downloadLocals, video_path,
                    video_filename, trimLocals, disk, dirs >>

\* A handler that reports success whatever trim_video returned.
ReportUnconditional ==
    /\ pc = "Report"
    /\ successes' = Append(successes, "Video trimmed successfully")
    /\ pc' = "End"
    /\ UNCHANGED << runHistory, segment_duration, warned, errors, downloadLocals,
                    video_path, video_filename, handles, trimLocals,
                    trimmed_paths, disk, dirs >>

\* Lines 131-157: the handler reports success for a non-empty list.
Report ==
    /\ pc = "Report"
    /\ successes' = IF Val(trimmed_paths) # <<>>
                    THEN Append(successes, "Video trimmed successfully")
                    ELSE successes
    /\ pc' = "End"
    /\ UNCHANGED << runHistory, segment_duration, warned, errors, downloadLocals, video_path,
                    video_filename, handles, trimLocals, trimmed_paths, disk, dirs >>

\* trim_video called on its own (line 67), with any arguments.
TrimCall ==
    /\ pc \in { "Caller", "Report" }
    /\ ResetPage
    /\ ResetTrimLocals
    /\ trimmed_paths' = None
    /\ \E n \in Names, t \in Titles, d \in TrimSegLens :
          /\ video_path' = Some(OutputPath(n))
          /\ video_filename' = Some(t)
          /\ segment_duration' = d
    /\ pc' = "TrimEntry"
    /\ UNCHANGED << runHistory, downloadLocals, handles, disk, dirs >>

\* download_youtube_video called on its own (line 31); a file an earlier
\* call has written is an old file to this one.
DownloadCall ==
    /\ pc \in { "DownloadCaller", "Downloaded" }
    /\ ResetPage
    /\ video_path' = None
    /\ video_filename' = None
    /\ title' = <<>>
    /\ calls' = NoCalls
    /\ disk' = [ n \in Names |-> IF disk[n] = "fresh" THEN "stale" ELSE disk[n] ]
    /\ pc' = "Resolve"
    /\ UNCHANGED << segment_duration, downloadLocals, handles, trimLocals,
                    trimmed_paths, dirs >>

\* sanitize_filename called on its own: the characters a string is made of
\* (the forbidden ones and two others) and the strings it is called with.
TitleChars == Forbidden \cup { "a", " " }
MyVideoTitle == << "M", "y", ":", " ", "V", "i", "d", "e", "o", "?" >>
TitleStrings == SeqsUpTo(TitleChars, MaxTitleLen) \cup { MyVideoTitle }

\* Line 45: sanitize_filename(yt.title), for any title.
SanitizeCall ==
    /\ pc \in { "SanitizeCaller", "Sanitized", "SanitizedAgain" }
    /\ \E s \in TitleStrings :
          /\ title' = s
          /\ filename' = sanitize_filename(s)
    /\ pc' = "Sanitized"
    /\ UNCHANGED << calls, segment_duration, pageOutput, streams, video,
                    attempts, sleeps, pending, video_path, video_filename,
                    handles, trimLocals, trimmed_paths, disk, dirs >>

\* Line 82: sanitize_filename applied to the name line 45 has produced.
SanitizeAgain ==
    /\ pc = "Sanitized"
    /\ title' = filename
    /\ filename' = sanitize_filename(filename)
    /\ pc' = "SanitizedAgain"
    /\ UNCHANGED << calls, segment_duration, pageOutput, streams, video,
                    attempts, sleeps, pending, video_path, video_filename,
                    handles, trimLocals, trimmed_paths, disk, dirs >>

\* ------------------------------------------------------ specifications
DownloadNext ==
    \/ ResolveRaise
    \/ Resolve
    \/ CheckStream
    \/ TransferRaise
    \/ TransferWritten
    \/ TransferUnflushed
    \/ FileAppears
    \/ PollSleep
    \/ PollExit
    \/ Verify

TrimNext ==
    \/ TrimEntry
    \/ TrimOpenRaise
    \/ TrimOpen
    \/ TrimPlan
    \/ TrimMkdir
    \/ TrimMkdirRaise
    \/ TrimSegment
    \/ TrimSegmentRaise
    \/ TrimReturn

Next ==
    \/ ProcessVideo
    \/ ClickEmptyUrl
    \/ Rerun
    \/ DownloadNext
    \/ AfterDownload
    \/ TrimNext
    \/ Report

\* The whole program: the page, the handler and both functions.
Spec == Init /\ [][Next]_vars

\* download_youtube_video called on its own, any number of times.  The
\* function is sequential code: a turn of the loop (lines 53-55), the exit
\* from it and lines 57-61 are not held up by anything, hence the fairness
\* on them.  Nothing is assumed about the file appearing.
InitDownload ==
    /\ pc = "DownloadCaller"
    /\ segment_duration = WidgetDefault
    /\ FreshRun
    /\ handles = 0
    /\ disk \in [ Names -> { "absent", "stale" } ]
    /\ dirs = {}

NextDownload == DownloadCall \/ DownloadNext

SpecDownload ==
    /\ InitDownload /\ [][NextDownload]_vars
    /\ WF_vars(PollSleep) /\ WF_vars(PollExit) /\ WF_vars(Verify)

\* trim_video on its own, called any number of times with any arguments.
InitTrim ==
    /\ pc = "Caller"
    /\ segment_duration = WidgetDefault
    /\ FreshRun
    /\ handles = 0
    /\ disk \in [ Names -> { "absent", "stale" } ]
    /\ dirs \in SUBSET (Names \ { <<>> })

NextTrim == TrimCall \/ TrimNext

SpecTrim == InitTrim /\ [][NextTrim]_vars

InitSanitize ==
    /\ pc = "SanitizeCaller"
    /\ segment_duration = WidgetDefault
    /\ FreshRun
    /\ handles = 0
    /\ disk = [ n \in Names |-> "absent" ]
    /\ dirs = {}

NextSanitize == SanitizeCall \/ SanitizeAgain

SpecSanitize == InitSanitize /\ [][NextSanitize]_vars

\* ---------------------------------------------------------- properties
\* trim_video has returned to its caller.
TrimReturned == pc \in { "Report", "End" } /\ trimmed_paths # None

\* The last transcode that was started failed: write_videofile was called
\* for one more segment than was recorded.
TranscodeFailed == TrimReturned /\ Len(transcodes) = Len(trimmed) + 1

\* C1 (as stated): when the transcode of segment k is the first to fail,
\* trim_video returns exactly the k-1 paths of segments 1..k-1 with a failed
\* outcome, never all N and never a success.
C1_PartialArtifactsReturned ==
    TranscodeFailed =>
        /\ Val(trimmed_paths) = trimmed
        /\ Len(Val(trimmed_paths)) = Len(transcodes) - 1
        /\ errors # <<>>
        /\ \A m \in 1..Len(successes) : successes[m] # "Video trimmed successfully"

\* C1 (amended): when the transcode of segment k is the first to fail,
\* trim_video returns the empty list and the error "Error trimming video" is
\* reported; it never returns N artifacts and the success report is never made.
C1_FailureReturnsEmpty ==
    TranscodeFailed =>
        /\ Val(trimmed_paths) = <<>>
        /\ Len(Val(trimmed_paths)) # num_segments
        /\ errors = << "Error trimming video" >>
        /\ \A m \in 1..Len(successes) : successes[m] # "Video trimmed successfully"

\* A run in which segments 1 and 2 were written and segment 3 failed.
C1_Witness ==
    /\ pc = "End"
    /\ TranscodeFailed
    /\ Len(transcodes) = 3
    /\ Len(trimmed) = 2

\* The loop of lines 90-101 has computed every planned window.
AllWindowsComputed == pc \in { "Loop", "Report" } /\ Len(windows) = num_segments

\* C2: for total duration > 0 and segment length > 0 the windows computed
\* in the loop start at 0, are contiguous, have positive length, have length
\* exactly the segment length except possibly the last planned one (whose
\* length is in (0, segment length]), and the last one ends at the total.
C2_PlannerCorrect ==
    (segment_duration > 0 /\ total_duration > 0 /\ pc \in { "Loop", "Report" }) =>
        /\ num_segments >= 1
        /\ Len(windows) <= num_segments
        /\ \A j \in 1..Len(windows) :
              /\ windows[j][1] = (IF j = 1 THEN 0 ELSE windows[j - 1][2])
              /\ windows[j][2] > windows[j][1]
              /\ windows[j][2] - windows[j][1] <= segment_duration
              /\ j < num_segments =>
                    windows[j][2] - windows[j][1] = segment_duration
        /\ AllWindowsComputed => windows[num_segments][2] = total_duration

\* Every window computed, at least two of them, the last shorter than the rest.
C2_Witness ==
    /\ AllWindowsComputed
    /\ segment_duration > 0
    /\ num_segments >= 2
    /\ windows[num_segments][2] - windows[num_segments][1] < segment_duration

\* C3: for total duration > 0 and segment length > 0 the planned count is
\* ceil(total / length), the least n with n * length >= total; 150 by 60
\* gives [0,60), [60,120), [120,150) and 60 by 60 gives [0,60) alone.
C3_SegmentCountIsCeil ==
    (segment_duration > 0 /\ total_duration > 0 /\ pc \in { "Mkdir", "Loop" }) =>
        /\ num_segments * segment_duration >= total_duration
        /\ (num_segments - 1) * segment_duration < total_duration
        /\ (AllWindowsComputed /\ total_duration = 150 /\ segment_duration = 60) =>
              windows = << << 0, 60 >>, << 60, 120 >>, << 120, 150 >> >>
        /\ (AllWindowsComputed /\ total_duration = 60 /\ segment_duration = 60) =>
              windows = << << 0, 60 >> >>

\* The 150-by-60 scenario with its three windows computed.
C3_Witness ==
    /\ pc = "Loop"
    /\ total_duration = 150
    /\ segment_duration = 60
    /\ Len(windows) = 3

\* A run that ended with trim_video returning from line 103 and no error.
SuccessfulRun == pc = "End" /\ trimmed_paths # None /\ errors = <<>>

\* p <= q for progress values << numerator, denominator >>.
ProgressLeq(p, q) == p[1] * q[2] <= q[1] * p[2]

\* C4: in a successful run with N segments the values written to the
\* progress bar are N in number, each within [0,1], non-decreasing, and the
\* last is exactly 1.
C4_ProgressMonotone ==
    SuccessfulRun =>
        /\ Len(progress_updates) = num_segments
        /\ \A j \in 1..Len(progress_updates) :
              /\ progress_updates[j][2] > 0
              /\ 0 <= progress_updates[j][1]
              /\ progress_updates[j][1] <= progress_updates[j][2]
        /\ \A j \in 1..(Len(progress_updates) - 1) :
              ProgressLeq(progress_updates[j], progress_updates[j + 1])
        /\ num_segments >= 1 =>
              progress_updates[num_segments][1] = progress_updates[num_segments][2]

\* A successful run of three segments.
C4_Witness == SuccessfulRun /\ num_segments = 3 /\ Len(progress_updates) = 3

\* The run reported "Download failed - file not created" (line 58).
IncompleteDownload ==
    \E m \in 1..Len(errors) : errors[m] = "Download failed - file not created"

\* C5: when the final existence check finds the file absent, the poll has
\* used all its attempts, download_youtube_video reports the incomplete
\* download and returns no path; such a run never calls trim_video, plans no
\* window, transcodes nothing and produces no artifact.
C5_IncompleteDownloadNoArtifacts ==
    /\ [][ (pc = "Verify" /\ pc' # "Verify" /\ ~Exists(OutputPath(filename))) =>
              /\ attempts = max_attempts
              /\ sleeps = max_attempts
              /\ errors' = Append(errors, "Download failed - file not created")
              /\ video_path' = None
              /\ video_filename' = None ]_vars
    /\ [](IncompleteDownload =>
              /\ pc \in { "Downloaded", "End" }
              /\ video_path = None
              /\ trimmed_paths = None
              /\ trimmed = <<>>
              /\ windows = <<>>
              /\ transcodes = <<>>
              /\ handles = 0)

\* A run ended by the incomplete download.
C5_Witness == pc = "End" /\ IncompleteDownload

\* C6: the source handle is open exactly between line 75 and the return of
\* trim_video; on every return (success, zero segments, a failure at any
\* step after the open) it is closed, so none is open between invocations.
C6_HandleReleased ==
    /\ handles \in { 0, 1 }
    /\ handles = 1 <=> pc \in { "Plan", "Mkdir", "Loop" }

\* trim_video has returned after the transcode of its second segment failed.
C6_Witness ==
    /\ pc = "Report"
    /\ handles = 0
    /\ Len(transcodes) = 2
    /\ Len(trimmed) = 1

\* The state of the spec's state machine that a program state stands for.
\* A run that ended with no error and without calling trim_video is in none
\* of the spec's states ("Stopped"), unless it never began (the warning).
Phase ==
    CASE pc = "Idle" -> << "Idle", 0 >>
      [] pc \in { "Resolve", "Selected" } -> << "Resolving", 0 >>
      [] pc \in { "Transfer", "Poll", "Verify" } -> << "Fetching", 0 >>
      [] pc = "Downloaded" ->
            IF errors # <<>> THEN << "Failed", 0 >> ELSE << "Fetching", 0 >>
      [] pc \in { "TrimEntry", "Open", "Plan", "Mkdir" } -> << "Planning", 0 >>
      [] pc = "Loop" ->
            IF i < num_segments THEN << "Segmenting", i + 1 >> ELSE << "Done", 0 >>
      [] pc = "Report" ->
            IF errors # <<>> THEN << "Failed", 0 >> ELSE << "Done", 0 >>
      [] pc = "End" ->
            IF errors # <<>> THEN << "Failed", 0 >>
            ELSE IF trimmed_paths # None THEN << "Done", 0 >>
            ELSE IF warned THEN << "Idle", 0 >>
            ELSE << "Stopped", 0 >>

\* The state that follows p in the spec's sequence, for n planned segments.
PhaseSucc(p, n) ==
    CASE p[1] = "Idle" -> << "Resolving", 0 >>
      [] p[1] = "Resolving" -> << "Fetching", 0 >>
      [] p[1] = "Fetching" -> << "Planning", 0 >>
      [] p[1] = "Planning" ->
            IF n >= 1 THEN << "Segmenting", 1 >> ELSE << "Done", 0 >>
      [] p[1] = "Segmenting" ->
            IF p[2] < n THEN << "Segmenting", p[2] + 1 >> ELSE << "Done", 0 >>
      [] OTHER -> p

\* C7 (as stated): within a run every step stays in its state, moves to the
\* next state of Idle, Resolving, Fetching, Planning, Segmenting(1..N), Done,
\* or moves to Failed; so no state is skipped, repeated or entered early.
C7_SequentialStateMachine ==
    [][ ~(pc = "End" /\ pc' = "Idle") =>
           \/ Phase' = Phase
           \/ Phase' = << "Failed", 0 >>
           \/ Phase' = PhaseSucc(Phase, num_segments') ]_vars

\* C9 (as stated): a path returned by download_youtube_video names the file
\* this download wrote, and a transcode is only started on a source that exists.
C9_FetchedFileIsThisDownload ==
    /\ (pc = "Downloaded" /\ video_path # None) =>
           disk[Val(video_path)] = "fresh"
    /\ transcodes # <<>> => Exists(Val(video_path))

\* Stream k of list s is progressive and in the mp4 container.
Suitable(s, k) == s[k].progressive /\ s[k].ext = "mp4"

\* A stream has been selected and the function has not returned.
StreamSelected == pc \in { "Transfer", "Poll", "Verify" }

\* C10 (as stated): the selected stream is progressive mp4 of the highest
\* resolution among such streams, and the first of them in reported order.
C10_FirstOfHighest ==
    StreamSelected =>
        /\ video \in 1..Len(streams)
        /\ Suitable(streams, video)
        /\ \A j \in 1..Len(streams) :
              Suitable(streams, j) =>
                  /\ streams[j].res <= streams[video].res
                  /\ streams[j].res = streams[video].res => video <= j

\* C10 (amended): the selected stream is progressive mp4 of the highest
\* resolution among such streams, and the last of them in reported order.
C10_LastOfHighest ==
    StreamSelected =>
        /\ video \in 1..Len(streams)
        /\ Suitable(streams, video)
        /\ \A j \in 1..Len(streams) :
              Suitable(streams, j) =>
                  /\ streams[j].res <= streams[video].res
                  /\ streams[j].res = streams[video].res => j <= video

\* Two suitable streams of the same resolution were reported.
C10_Witness ==
    /\ pc = "Transfer"
    /\ Len(streams) = 2
    /\ Suitable(streams, 1) /\ Suitable(streams, 2)
    /\ streams[1].res = streams[2].res
    /\ video = 2

\* C8 (as stated): planning with a segment length <= 0 ends in an error
\* report, and with such a length no window is planned and no segment is
\* transcoded.
C8_NonPositiveLengthRejected ==
    /\ [][ (pc = "Plan" /\ segment_duration <= 0) =>
              /\ pc' = "Report"
              /\ Len(errors') = Len(errors) + 1 ]_vars
    /\ [](segment_duration <= 0 => windows = <<>> /\ transcodes = <<>>)

\* C8 (amended): with a segment length <= 0 no window is planned, no segment
\* is transcoded and the empty list is returned; a length of 0 ends planning
\* with the "Error trimming video" report, a negative length plans a count
\* <= 0, reports no error and returns from line 103.
C8_NonPositiveLengthPlansNothing ==
    /\ [][ (pc = "Plan" /\ segment_duration = 0) =>
              /\ pc' = "Report"
              /\ errors' = << "Error trimming video" >>
              /\ trimmed_paths' = Some(<<>>) ]_vars
    /\ [][ (pc = "Plan" /\ segment_duration < 0) =>
              /\ pc' = "Mkdir"
              /\ num_segments' <= 0
              /\ errors' = <<>> ]_vars
    /\ [][ (pc = "Loop" /\ segment_duration < 0 /\ pc' # "Loop") =>
              /\ pc' = "Report"
              /\ errors' = <<>>
              /\ trimmed_paths' = Some(<<>>) ]_vars
    /\ [](segment_duration <= 0 =>
              /\ windows = <<>>
              /\ transcodes = <<>>
              /\ trimmed = <<>>
              /\ TrimReturned => Val(trimmed_paths) = <<>>)

\* trim_video returned from its loop with a negative length and no error.
C8_Witness ==
    /\ pc = "Report"
    /\ segment_duration < 0
    /\ progress_bar # None
    /\ errors = <<>>
    /\ total_duration > 0

\* ------------------------------------------------------------------ C11
\* The host has answered and none of its streams is progressive mp4.
NoSuitableStream ==
    /\ pc = "Selected"
    /\ \A k \in 1..Len(streams) : ~Suitable(streams, k)

\* The run has reported that no suitable stream was found.
NoSuitableReported ==
    \E k \in 1..Len(errors) : errors[k] = "No suitable video stream found"

\* C11: when no reported stream is both progressive and mp4, the download
\* reports "No suitable video stream found" and returns nothing without
\* starting a transfer or writing a file; a run that made this report never
\* starts a transfer, holds no file of its own, transcodes nothing, returns
\* no artifact list and reports no success.
C11_NoSuitableStream ==
    /\ [][ NoSuitableStream =>
             /\ errors' = Append(errors, "No suitable video stream found")
             /\ pc' = "Downloaded"
             /\ video_path' = None
             /\ video_filename' = None
             /\ calls'.transfer = 0
             /\ disk' = disk
             /\ dirs' = dirs ]_vars
    /\ [](NoSuitableReported =>
             /\ calls.transfer = 0
             /\ ~pending
             /\ \A n \in Names : disk[n] # "fresh"
             /\ video_path = None
             /\ transcodes = <<>>
             /\ trimmed = <<>>
             /\ trimmed_paths = None
             /\ successes = <<>>)

\* A run that resolved a host without a suitable stream has ended.
C11_Witness ==
    /\ pc = "End"
    /\ errors = << "No suitable video stream found" >>
    /\ calls = [ resolve |-> 1, transfer |-> 0 ]

\* ------------------------------------------------------------------ C12
\* The handler has made the segmentation success report (lines 132-134).
SuccessReported ==
    \E m \in 1..Len(successes) : successes[m] = "Video trimmed successfully"

\* A step in which a component fails: the resolve raises or selects nothing,
\* the transfer raises, the final existence check finds no file, the source
\* of trim_video is missing, or the open, the directory creation or the
\* transcode of a segment raises.
FailureStep ==
    \/ pc \in { "Resolve", "Selected", "Transfer" } /\ pc' = "Downloaded"
    \/ pc = "Verify" /\ pc' = "Downloaded" /\ video_path' = None
    \/ pc \in { "TrimEntry", "Open", "Plan", "Mkdir" } /\ pc' = "Report"
    \/ pc = "Loop" /\ pc' = "Report" /\ transcodes' # transcodes

\* C12: every failing step adds an error report and the reports of a run
\* are kept until the run ends, so a run in which a component failed shows
\* an error; the success report "Video trimmed successfully" is made only
\* in a run without any error report, and then the returned list holds one
\* path for every planned segment, never an empty or partial one.
C12_NoFalseSuccess ==
    /\ [][ /\ FailureStep => Len(errors') = Len(errors) + 1
           /\ pc' # "Idle" =>
                 /\ Len(errors') >= Len(errors)
                 /\ \A m \in 1..Len(errors) : errors'[m] = errors[m] ]_vars
    /\ [](SuccessReported =>
             /\ errors = <<>>
             /\ pc = "End"
             /\ trimmed_paths # None
             /\ num_segments >= 1
             /\ Len(Val(trimmed_paths)) = num_segments
             /\ Len(transcodes) = num_segments
             /\ Val(trimmed_paths) = trimmed)
    /\ []((pc = "End" /\ errors # <<>>) => ~SuccessReported)

\* A run in which two segments were written and the third failed has ended
\* with an error report and no success report.
C12_Witness ==
    /\ pc = "End"
    /\ TranscodeFailed
    /\ Len(trimmed) = 2
    /\ errors # <<>>
    /\ ~SuccessReported
    /\ title = << "a" >>

\* ------------------------------------------------------------------ C13
\* C13: once a step of the run has failed (every failure leaves an error
\* report, and the reports stay until the run ends), no step of that run
\* starts another transcode or writes another progress value; the failing
\* step itself writes no progress value, and after a failed download
\* trim_video is not entered at all.
C13_FailFast ==
    /\ [][ /\ (errors # <<>> /\ pc' # "Idle") =>
                 /\ transcodes' = transcodes
                 /\ progress_updates' = progress_updates
                 /\ progress_bar' = progress_bar
                 /\ windows' = windows
           /\ FailureStep =>
                 /\ errors' # <<>>
                 /\ progress_updates' = progress_updates
                 /\ Len(transcodes') <= Len(transcodes) + 1 ]_vars
    /\ []((errors # <<>> /\ trimmed_paths = None) => pc \in { "Downloaded", "End" })

\* The first of three planned segments failed and the run has ended with
\* that one transcode and no progress value.
C13_Witness ==
    /\ pc = "End"
    /\ errors = << "Error trimming video" >>
    /\ num_segments = 3
    /\ transcodes = << 1 >>
    /\ progress_updates = <<>>

\* ------------------------------------------------------------------ C14
\* The characters of s that are not forbidden, in their order.
KeepAllowed(s) ==
    LET Allowed(c) == c \notin Forbidden
    IN  SelectSeq(s, Allowed)

\* C14: sanitize_filename returns its argument without the occurrences of
\* the nine characters < > : " / \ | ? * and with every other character
\* kept in place and in order; applied to its own result it changes
\* nothing; "My: Video?" becomes "My Video".
C14_Sanitize ==
    /\ Forbidden = { "<", ">", ":", "\"", "/", "\\", "|", "?", "*" }
    /\ Cardinality(Forbidden) = 9
    /\ pc \in { "Sanitized", "SanitizedAgain" } =>
          /\ filename = KeepAllowed(title)
          /\ \A k \in 1..Len(filename) : filename[k] \notin Forbidden
          /\ Len(title) - Len(filename) =
                Cardinality({ k \in 1..Len(title) : title[k] \in Forbidden })
          /\ sanitize_filename(filename) = filename
          /\ title = MyVideoTitle =>
                filename = << "M", "y", " ", "V", "i", "d", "e", "o" >>
    /\ pc = "SanitizedAgain" => filename = title

\* A name with two forbidden characters removed has been sanitized again.
C14_Witness ==
    /\ pc = "SanitizedAgain"
    /\ filename = << "M", "y", " ", "V", "i", "d", "e", "o" >>

\* ------------------------------------------------------------------ C15
\* C15: after the transfer call has returned, the loop of lines 53-55
\* sleeps at most max_attempts (10) times, one second each, and never sleeps
\* in a turn that finds the file present; whether the file appears at once,
\* late or never, the loop is left and the function returns; the return
\* carries the path exactly when the check of line 57 finds the file
\* present, and reports "Download failed - file not created" otherwise.
C15_BoundedPoll ==
    /\ max_attempts = 10
    /\ [](/\ sleeps <= max_attempts
          /\ pc \in { "Poll", "Verify" } => sleeps = attempts
          /\ (pc = "Verify" /\ ~Exists(OutputPath(filename))) =>
                sleeps = max_attempts)
    /\ [][ /\ (pc = "Poll" /\ Exists(OutputPath(filename))) =>
                 /\ sleeps' = sleeps
                 /\ ~pending => pc' = "Verify"
           /\ sleeps' > sleeps =>
                 /\ pc = "Poll" /\ ~Exists(OutputPath(filename))
                 /\ sleeps' = sleeps + 1
           /\ (pc = "Verify" /\ pc' = "Downloaded") =>
                 IF Exists(OutputPath(filename))
                 THEN /\ video_path' = Some(OutputPath(filename))
                      /\ video_filename' = Some(filename)
                      /\ errors' = errors
                 ELSE /\ video_path' = None
                      /\ errors' = Append(errors, "Download failed - file not created")
         ]_vars
    /\ (pc = "Poll" ~> pc = "Downloaded")

\* The file appeared after three sleeps and the loop has been left.
C15_Witness ==
    /\ pc = "Verify"
    /\ sleeps = 3
    /\ disk[OutputPath(filename)] = "fresh"

\* ------------------------------------------------------------------ C16
\* C16: a run starts the resolve at most once and the transfer at most
\* once, and starts the transcode of a segment at most once (the k-th
\* transcode started is that of segment k); once a step has failed neither
\* the resolve, the transfer nor any transcode is started again in that run.
\* Only the existence check of the poll loop is repeated, at most
\* max_attempts times.
C16_NoRetry ==
    /\ [](/\ calls.resolve <= 1
          /\ calls.transfer <= 1
          /\ calls.transfer <= calls.resolve
          /\ Len(transcodes) <= num_segments
          /\ \A k \in 1..Len(transcodes) : transcodes[k] = k
          /\ sleeps <= max_attempts)
    /\ [][ (errors # <<>> /\ pc' # "Idle") =>
              /\ calls' = calls
              /\ transcodes' = transcodes ]_vars

\* One resolve, one transfer, segment 1 written, the transcode of segment 2
\* failed and the run over.
C16_Witness ==
    /\ pc = "End"
    /\ calls = [ resolve |-> 1, transfer |-> 1 ]
    /\ errors = << "Error trimming video" >>
    /\ transcodes = << 1, 2 >>
    /\ num_segments = 3

\* ------------------------------------------------------------------ C17
\* C17: in a successful run with N planned segments the returned list has
\* exactly N entries; its i-th entry (i = 1..N) is the file part_i.mp4 in
\* the directory named by the sanitized title of the video; the entries are
\* pairwise distinct and in increasing order of their index.
C17_ArtifactNaming ==
    SuccessfulRun =>
        LET paths == Val(trimmed_paths)
        IN  /\ Len(paths) = num_segments
            /\ \A j \in 1..Len(paths) :
                  /\ paths[j].part = j
                  /\ paths[j].dir = KeepAllowed(title)
                  /\ paths[j].dir \in dirs
            /\ \A j, k \in 1..Len(paths) : j # k => paths[j] # paths[k]
            /\ \A j, k \in 1..Len(paths) : j < k => paths[j].part < paths[k].part

\* A successful run of three segments on a title that sanitization changes.
C17_Witness ==
    /\ SuccessfulRun
    /\ title = << "a", "?" >>
    /\ Len(Val(trimmed_paths)) = 3

\* ------------------------------------------------------------------ C18
\* C18: the progress bar is updated once for every path recorded and never
\* for a segment whose transcode failed: a step that updates it is one that
\* has written a segment and appended its path, and the value it writes is
\* (paths recorded so far) / (planned segments); so the j-th update of a
\* call that planned N segments is j/N.
C18_ProgressValue ==
    /\ [](/\ Len(progress_updates) = Len(trimmed)
          /\ Len(progress_updates) <= Len(transcodes)
          /\ \A j \in 1..Len(progress_updates) :
                /\ progress_updates[j][2] # 0
                /\ progress_updates[j][1] * num_segments = j * progress_updates[j][2])
    /\ [][ (progress_updates' # progress_updates /\ pc' # "Idle") =>
              /\ pc = "Loop"
              /\ Len(transcodes') = Len(transcodes) + 1
              /\ Len(trimmed') = Len(trimmed) + 1
              /\ Len(progress_updates') = Len(progress_updates) + 1
              /\ LET v == progress_updates'[Len(progress_updates')]
                 IN  /\ v[1] * num_segments = Len(trimmed') * v[2]
                     /\ progress_bar' = Some(v) ]_vars

\* Two of three segments are written: the bar stands at 2/3.
C18_Witness ==
    /\ pc = "Loop"
    /\ num_segments = 3
    /\ Len(trimmed) = 2
    /\ progress_bar = Some(<< 2, 3 >>)

\* ------------------------------------------------------------------ C19
\* C19: whatever its arguments and whichever segment fails, trim_video
\* returns either the empty list or a list with one path for every planned
\* segment; a list of length strictly between 0 and num_segments is never
\* returned, and the paths written before a failure are not in the result.
C19_AllOrNothing ==
    TrimReturned =>
        LET returned == Val(trimmed_paths)
        IN  /\ returned = <<>> \/ Len(returned) = num_segments
            /\ ~(0 < Len(returned) /\ Len(returned) < num_segments)
            /\ Len(returned) > 0 => (returned = trimmed /\ Len(transcodes) = num_segments)
            /\ Len(transcodes) # Len(trimmed) => returned = <<>>

\* trim_video has returned the empty list after writing two of three
\* segments.
C19_Witness ==
    /\ pc = "Report"
    /\ trimmed_paths = Some(<<>>)
    /\ num_segments = 3
    /\ Len(trimmed) = 2
    /\ Len(transcodes) = 3

\* ------------------------------------------------------------------ C20
\* trim_video is entered and nothing exists at its source path.
MissingSource == pc = "TrimEntry" /\ ~Exists(Val(video_path))

\* C20: called with a source path at which nothing exists, trim_video
\* reports "Video file not found" and returns the empty list; it opens no
\* handle, creates no directory, writes no file, plans no window, starts no
\* transcode and writes no progress value.
C20_MissingSourceNoOp ==
    /\ [][ MissingSource =>
              /\ pc' = "Report"
              /\ errors' = Append(errors, "Video file not found")
              /\ trimmed_paths' = Some(<<>>)
              /\ handles' = handles
              /\ dirs' = dirs
              /\ disk' = disk
              /\ windows' = windows
              /\ transcodes' = transcodes
              /\ progress_bar' = progress_bar
              /\ progress_updates' = progress_updates ]_vars
    /\ []((pc = "Report" /\ errors = << "Video file not found" >>) =>
              /\ trimmed_paths = Some(<<>>)
              /\ handles = 0
              /\ windows = <<>>
              /\ transcodes = <<>>
              /\ progress_bar = None
              /\ progress_updates = <<>>)

\* trim_video has returned from a call on a missing source, with a name
\* whose directory does not exist.
C20_Witness ==
    /\ pc = "Report"
    /\ errors = << "Video file not found" >>
    /\ ~Exists(Val(video_path))
    /\ ~DirExists(sanitize_filename(Val(video_filename)))

=============================================================================
